---- MODULE Spec2Model ----
(***************************************************************************)
(* Model of the GN builtin mark_used_from                                  *)
(* (tools/gn/function_mark_used_from.cc): the call handler                 *)
(* RunMarkUsedFrom, its two helpers MarkUsedAllValues and                  *)
(* MarkUsedFromList, and the Scope / Value / ParseNode primitives they     *)
(* call.                                                                   *)
(***************************************************************************)
EXTENDS Integers, Sequences, FiniteSets

(***************************************************************************)
(* Bounds of the model.                                                    *)
(***************************************************************************)
\* longest list literal passed as variable_list_or_star
MaxListLen == 3
\* longest list literal passed as variables_to_not_mark_list
MaxExclLen == 2

(***************************************************************************)
(* The scopes of the model.  Global is the scope enclosing the caller,     *)
(* Caller the scope the call runs in (a template body), Invoker the scope  *)
(* of a template invocation, Empty the scope of an invocation that         *)
(* assigns nothing, and Module the scope enclosing both invocations.       *)
(***************************************************************************)
Global == "global"
Caller == "caller"
Module == "module"
Invoker == "invoker_scope"
Empty == "empty_scope"
NoScope == "none"
ScopeIds == {Global, Caller, Module, Invoker, Empty}

\* Scope::containing(): the enclosing scope of each scope.
containing ==
  [s \in ScopeIds |->
     CASE s = Global -> NoScope
       [] s = Caller -> Global
       [] s = Module -> NoScope
       [] s = Invoker -> Module
       [] s = Empty -> Module]

(***************************************************************************)
(* Value (tools/gn/value.h): a tagged union.  Only the variants the        *)
(* function looks at are modelled: NONE (Value()), INTEGER, STRING, LIST   *)
(* and SCOPE.  A SCOPE value refers to a scope by id.                      *)
(***************************************************************************)
NoValue == [type |-> "NONE", str |-> "", scope |-> NoScope, list |-> <<>>]
StringValue(s) == [type |-> "STRING", str |-> s, scope |-> NoScope, list |-> <<>>]
IntegerValue == [type |-> "INTEGER", str |-> "", scope |-> NoScope, list |-> <<>>]
ScopeValue(id) == [type |-> "SCOPE", str |-> "", scope |-> id, list |-> <<>>]
ListValue(l) == [type |-> "LIST", str |-> "", scope |-> NoScope, list |-> l]

(***************************************************************************)
(* Err: the message of the error, "" when no error is set.                 *)
(***************************************************************************)
NoErr == ""
HasError(e) == e # NoErr
ErrWrongArgCount == "Wrong number of arguments."
ErrNotIdentifier == "Expected an identifier for the scope."
ErrUndefinedIdentifier == "Undefined identifier."
ErrBadExclusion == "Not a valid list of variables to exclude."
ErrBadWhat == "Not a valid list of variables to mark used."
ErrNotAScope == "This is not a scope."
ErrNotAString == "This is not a string."
ErrEvaluation == "Evaluation of the argument failed."

\* Value::VerifyTypeIs(t, err): the error it sets, NoErr when the type is t.
VerifyTypeIs(v, t) ==
  IF v.type = t THEN NoErr
  ELSE IF t = "SCOPE" THEN ErrNotAScope ELSE ErrNotAString

(***************************************************************************)
(* ParseNode: the argument expressions as the function receives them,      *)
(* unevaluated.  An identifier node, a literal, or an expression whose     *)
(* evaluation fails.                                                       *)
(***************************************************************************)
IdentifierNode(n) == [node |-> "identifier", name |-> n, value |-> NoValue]
LiteralNode(v) == [node |-> "literal", name |-> "", value |-> v]
FailingNode == [node |-> "failing", name |-> "", value |-> NoValue]

\* ParseNode::AsIdentifier(): non-null only for an identifier node.
AsIdentifier(n) == n.node = "identifier"

\* ParseNode::Execute(scope, err) for the expressions above.
Execute(n) ==
  IF n.node = "literal" THEN [value |-> n.value, err |-> NoErr]
  ELSE [value |-> NoValue, err |-> ErrEvaluation]

VARIABLES
  values,   \* Scope::values_ of every scope: name -> [value, used]
  pc,       \* "idle", "call" (arguments bound, handler not yet run), "done"
  args,     \* args_list->contents() of the call
  err,      \* *err after the call
  steps,    \* the steps of the handler the call went through, in order
  before    \* values at the moment the handler was entered

vars == <<values, pc, args, err, steps, before>>

(***************************************************************************)
(* Scope (tools/gn/scope.h).  vals is the record map of every scope.       *)
(***************************************************************************)
\* Scope::GetValue(ident, counts_as_used): lexical lookup from scope s
\* outward; the binding found is marked used when counts_as_used.
RECURSIVE Scope_GetValue(_, _, _, _)
Scope_GetValue(vals, s, ident, counts_as_used) ==
  IF ident \in DOMAIN vals[s]
  THEN [found |-> TRUE,
        value |-> vals[s][ident].value,
        values |-> IF counts_as_used
                   THEN [vals EXCEPT ![s][ident].used = TRUE]
                   ELSE vals]
  ELSE IF containing[s] # NoScope
  THEN Scope_GetValue(vals, containing[s], ident, counts_as_used)
  ELSE [found |-> FALSE, value |-> NoValue, values |-> vals]

\* Scope::GetMutableValue(ident, search_mode, counts_as_used); search_nested
\* stands for search_mode == Scope::SEARCH_NESTED.
RECURSIVE Scope_GetMutableValue(_, _, _, _, _)
Scope_GetMutableValue(vals, s, ident, search_nested, counts_as_used) ==
  IF ident \in DOMAIN vals[s]
  THEN [found |-> TRUE,
        value |-> vals[s][ident].value,
        values |-> IF counts_as_used
                   THEN [vals EXCEPT ![s][ident].used = TRUE]
                   ELSE vals]
  ELSE IF search_nested /\ containing[s] # NoScope
  THEN Scope_GetMutableValue(vals, containing[s], ident, search_nested,
                             counts_as_used)
  ELSE [found |-> FALSE, value |-> NoValue, values |-> vals]

\* Scope::MarkAllUsed(excluded_values): every binding declared on s itself
\* whose name is not excluded is marked used.
Scope_MarkAllUsed(vals, s, excluded_values) ==
  [vals EXCEPT ![s] =
     [n \in DOMAIN vals[s] |->
        IF n \in excluded_values
        THEN vals[s][n]
        ELSE [vals[s][n] EXCEPT !.used = TRUE]]]

(***************************************************************************)
(* function_mark_used_from.cc                                              *)
(***************************************************************************)
\* MarkUsedAllValues gone wrong: the exclusion set is dropped.
MarkUsedAllValues_NoExclusion(vals, source, exclusion_set) ==
  Scope_MarkAllUsed(vals, source, {})

\* MarkUsedAllValues gone wrong: the enclosing scopes are marked as well.
RECURSIVE MarkUsedAllValues_Enclosing(_, _, _)
MarkUsedAllValues_Enclosing(vals, source, exclusion_set) ==
  LET marked == Scope_MarkAllUsed(vals, source, exclusion_set)
  IN IF containing[source] = NoScope THEN marked
     ELSE MarkUsedAllValues_Enclosing(marked, containing[source],
                                      exclusion_set)

\* MarkUsedAllValues gone wrong: used is assigned, not set, so an excluded
\* binding is reset.
MarkUsedAllValues_ResetsExcluded(vals, source, exclusion_set) ==
  [vals EXCEPT ![source] =
     [n \in DOMAIN vals[source] |->
        [vals[source][n] EXCEPT !.used = (n \notin exclusion_set)]]]

\* MarkUsedAllValues(function, source, exclusion_set)
MarkUsedAllValues(vals, source, exclusion_set) ==
  Scope_MarkAllUsed(vals, source, exclusion_set)

\* MarkUsedFromList gone wrong: a name is looked up in the source scope
\* alone.
RECURSIVE MarkUsedFromList_SourceOnly(_, _, _)
MarkUsedFromList_SourceOnly(vals, source, list) ==
  IF list = <<>>
  THEN [values |-> vals, err |-> NoErr]
  ELSE LET cur == Head(list)
           e == VerifyTypeIs(cur, "STRING")
       IN IF HasError(e)
          THEN [values |-> vals, err |-> e]
          ELSE MarkUsedFromList_SourceOnly(
                 Scope_GetMutableValue(vals, source, cur.str, FALSE,
                                       TRUE).values,
                 source, Tail(list))

\* MarkUsedFromList gone wrong: a name bound nowhere is an error.
RECURSIVE MarkUsedFromList_MissingIsError(_, _, _)
MarkUsedFromList_MissingIsError(vals, source, list) ==
  IF list = <<>>
  THEN [values |-> vals, err |-> NoErr]
  ELSE LET cur == Head(list)
           e == VerifyTypeIs(cur, "STRING")
       IN IF HasError(e)
          THEN [values |-> vals, err |-> e]
          ELSE LET found == Scope_GetValue(vals, source, cur.str, TRUE)
               IN IF ~found.found
                  THEN [values |-> vals, err |-> ErrUndefinedIdentifier]
                  ELSE MarkUsedFromList_MissingIsError(found.values, source,
                                                       Tail(list))

\* MarkUsedFromList(source, list, err): the loop stops at the first element
\* that is not a string; the elements before it have been looked up.
RECURSIVE MarkUsedFromList(_, _, _)
MarkUsedFromList(vals, source, list) ==
  IF list = <<>>
  THEN [values |-> vals, err |-> NoErr]
  ELSE LET cur == Head(list)
           e == VerifyTypeIs(cur, "STRING")
       IN IF HasError(e)
          THEN [values |-> vals, err |-> e]
          ELSE MarkUsedFromList(
                 Scope_GetValue(vals, source, cur.str, TRUE).values,
                 source, Tail(list))

\* The exclusion loop gone wrong: an element that is not a string is
\* skipped.
RECURSIVE InsertExclusions_SkipsNonStrings(_, _)
InsertExclusions_SkipsNonStrings(list, exclusion_set) ==
  IF list = <<>>
  THEN [err |-> NoErr, exclusion_set |-> exclusion_set]
  ELSE IF HasError(VerifyTypeIs(Head(list), "STRING"))
  THEN InsertExclusions_SkipsNonStrings(Tail(list), exclusion_set)
  ELSE InsertExclusions_SkipsNonStrings(Tail(list),
                                        exclusion_set \cup {Head(list).str})

\* RunMarkUsedFrom, "Extract the exclusion list if defined": the loop over
\* exclusion_value.list_value().
RECURSIVE InsertExclusions(_, _)
InsertExclusions(list, exclusion_set) ==
  IF list = <<>>
  THEN [err |-> NoErr, exclusion_set |-> exclusion_set]
  ELSE LET e == VerifyTypeIs(Head(list), "STRING")
       IN IF HasError(e)
          THEN [err |-> e, exclusion_set |-> exclusion_set]
          ELSE InsertExclusions(Tail(list),
                                exclusion_set \cup {Head(list).str})

\* RunMarkUsedFrom, "Extract the exclusion list if defined".
ExtractExclusion(a) ==
  IF Len(a) = 3
  THEN LET exclusion_value == Execute(a[3])
       IN IF HasError(exclusion_value.err)
          THEN [err |-> exclusion_value.err, exclusion_set |-> {}]
          ELSE IF exclusion_value.value.type # "LIST"
          THEN [err |-> ErrBadExclusion, exclusion_set |-> {}]
          ELSE InsertExclusions(exclusion_value.value.list, {})
  ELSE [err |-> NoErr, exclusion_set |-> {}]

\* The branch on what_value gone wrong: the exclusion set is applied to the
\* list as well.
MarkWhat_ExclusionsApplied(vals, source, what_value, exclusion_set) ==
  IF what_value.type = "STRING" /\ what_value.str = "*"
  THEN [values |-> MarkUsedAllValues(vals, source, exclusion_set),
        err |-> NoErr, marking |-> TRUE]
  ELSE IF what_value.type # "STRING" /\ what_value.type = "LIST"
  THEN LET m == MarkUsedFromList(vals, source,
                  SelectSeq(what_value.list,
                            LAMBDA v : ~(v.type = "STRING"
                                         /\ v.str \in exclusion_set)))
       IN [values |-> m.values, err |-> m.err, marking |-> TRUE]
  ELSE [values |-> vals, err |-> ErrBadWhat, marking |-> FALSE]

\* The branch on what_value gone wrong: every string stands for "*".
MarkWhat_AnyStringIsStar(vals, source, what_value, exclusion_set) ==
  IF what_value.type = "STRING"
  THEN [values |-> MarkUsedAllValues(vals, source, exclusion_set),
        err |-> NoErr, marking |-> TRUE]
  ELSE IF what_value.type = "LIST"
  THEN LET m == MarkUsedFromList(vals, source, what_value.list)
       IN [values |-> m.values, err |-> m.err, marking |-> TRUE]
  ELSE [values |-> vals, err |-> ErrBadWhat, marking |-> FALSE]

\* RunMarkUsedFrom, the branch on what_value: "*" marks all values, a list
\* marks its names, anything else is an error.
MarkWhat(vals, source, what_value, exclusion_set) ==
  IF what_value.type = "STRING" /\ what_value.str = "*"
  THEN [values |-> MarkUsedAllValues(vals, source, exclusion_set),
        err |-> NoErr, marking |-> TRUE]
  ELSE IF what_value.type # "STRING" /\ what_value.type = "LIST"
  THEN LET m == MarkUsedFromList(vals, source, what_value.list)
       IN [values |-> m.values, err |-> m.err, marking |-> TRUE]
  ELSE [values |-> vals, err |-> ErrBadWhat, marking |-> FALSE]

\* The tail of RunMarkUsedFrom gone wrong: the second argument is evaluated
\* before the exclusion list.
ExtractAndMark_WhatFirst(vals, source, a) ==
  LET what_value == Execute(a[2])
      after_exclusion == IF Len(a) = 3 THEN <<"exclusion">> ELSE <<>>
  IN IF HasError(what_value.err)
     THEN [values |-> vals, err |-> what_value.err, steps |-> <<"what">>]
     ELSE LET exclusion == ExtractExclusion(a)
          IN IF HasError(exclusion.err)
             THEN [values |-> vals, err |-> exclusion.err,
                   steps |-> <<"what">> \o after_exclusion]
             ELSE LET m == MarkWhat(vals, source, what_value.value,
                                    exclusion.exclusion_set)
                  IN [values |-> m.values, err |-> m.err,
                      steps |-> <<"what">> \o after_exclusion \o
                                (IF m.marking THEN <<"mark">> ELSE <<>>)]

\* RunMarkUsedFrom from "Extract the exclusion list if defined" to the end:
\* the exclusion list, then the list or "*", then the marking.
ExtractAndMark(vals, source, a) ==
  LET exclusion == ExtractExclusion(a)
      after_exclusion == IF Len(a) = 3 THEN <<"exclusion">> ELSE <<>>
  IN IF HasError(exclusion.err)
     THEN [values |-> vals, err |-> exclusion.err, steps |-> after_exclusion]
     ELSE LET what_value == Execute(a[2])
          IN IF HasError(what_value.err)
             THEN [values |-> vals, err |-> what_value.err,
                   steps |-> after_exclusion \o <<"what">>]
             ELSE LET m == MarkWhat(vals, source, what_value.value,
                                    exclusion.exclusion_set)
                  IN [values |-> m.values, err |-> m.err,
                      steps |-> after_exclusion \o <<"what">> \o
                                (IF m.marking THEN <<"mark">> ELSE <<>>)]

\* RunMarkUsedFrom(scope, function, args_list, err).  The result carries the
\* record maps as the call leaves them, *err, and the steps gone through.
RunMarkUsedFrom(vals, scope, a) ==
  IF Len(a) # 2 /\ Len(a) # 3
  THEN [values |-> vals, err |-> ErrWrongArgCount, steps |-> <<"count">>]
  ELSE IF ~AsIdentifier(a[1])
  THEN [values |-> vals, err |-> ErrNotIdentifier,
        steps |-> <<"count", "identifier">>]
  ELSE LET value == Scope_GetMutableValue(vals, scope, a[1].name, TRUE, TRUE)
       IN IF ~value.found
          THEN [values |-> value.values, err |-> ErrUndefinedIdentifier,
                steps |-> <<"count", "identifier", "lookup">>]
          ELSE IF HasError(VerifyTypeIs(value.value, "SCOPE"))
          THEN [values |-> value.values,
                err |-> VerifyTypeIs(value.value, "SCOPE"),
                steps |-> <<"count", "identifier", "lookup", "scope">>]
          ELSE LET r == ExtractAndMark(value.values, value.value.scope, a)
               IN [values |-> r.values, err |-> r.err,
                   steps |-> <<"count", "identifier", "lookup", "scope">>
                             \o r.steps]

(***************************************************************************)
(* The calls the model makes.                                              *)
(***************************************************************************)
\* the sequences over S of length at most n that repeat no element
RECURSIVE InjectiveSeqs(_, _)
InjectiveSeqs(S, n) ==
  IF n = 0 THEN {<<>>}
  ELSE LET shorter == InjectiveSeqs(S, n - 1)
       IN shorter \cup
          {Append(q, x) : <<q, x>> \in
             {<<q, x>> \in shorter \X S :
                /\ Len(q) = n - 1
                /\ \A i \in 1..Len(q) : q[i] # x}}

ListElements ==
  {StringValue("a"), StringValue("b"), StringValue("z"), IntegerValue}
ExclusionElements == {StringValue("a"), StringValue("z"), IntegerValue}

ScopeNodes ==
  {IdentifierNode("invoker"), IdentifierNode("n"),
   IdentifierNode("undefined_name"), LiteralNode(IntegerValue)}
WhatNodes ==
  {LiteralNode(StringValue("*")), LiteralNode(StringValue("all")),
   LiteralNode(IntegerValue), FailingNode}
  \cup {LiteralNode(ListValue(l)) : l \in InjectiveSeqs(ListElements, MaxListLen)}
ExclusionNodes ==
  {LiteralNode(StringValue("a")), FailingNode}
  \cup {LiteralNode(ListValue(l)) :
          l \in InjectiveSeqs(ExclusionElements, MaxExclLen)}
\* the arguments of the calls with four arguments
FewWhatNodes ==
  {LiteralNode(StringValue("*")), LiteralNode(IntegerValue), FailingNode,
   LiteralNode(ListValue(<<StringValue("a")>>))}
FewExclusionNodes ==
  {LiteralNode(ListValue(<<>>)), LiteralNode(ListValue(<<IntegerValue>>)),
   FailingNode}

Calls ==
  {<<s>> : s \in ScopeNodes}
  \cup {<<s, w>> : <<s, w>> \in ScopeNodes \X WhatNodes}
  \cup {<<s, w, x>> : <<s, w, x>> \in ScopeNodes \X WhatNodes \X ExclusionNodes}
  \cup {<<s, w, x, LiteralNode(ListValue(<<>>))>> :
          <<s, w, x>> \in ScopeNodes \X FewWhatNodes \X FewExclusionNodes}

(***************************************************************************)
(* The state machine.                                                      *)
(***************************************************************************)
Unused(v) == [value |-> v, used |-> FALSE]

\* The scopes as the interpreter has built them when the template body
\* starts to run: nothing is used yet.  invoker is declared in the caller's
\* scope or in the scope enclosing it, and names the scope of an invocation
\* that holds assignments or none.
InitValues(declared_in, invoker_scope) ==
  [s \in ScopeIds |->
     CASE s = Global ->
            [n \in {"n"} \cup (IF declared_in = Global THEN {"invoker"} ELSE {}) |->
               IF n = "n" THEN Unused(IntegerValue)
               ELSE Unused(ScopeValue(invoker_scope))]
       [] s = Caller ->
            [n \in (IF declared_in = Caller THEN {"invoker"} ELSE {}) |->
               Unused(ScopeValue(invoker_scope))]
       [] s = Module -> [n \in {"a", "b"} |-> Unused(StringValue("m"))]
       [] s = Invoker -> [n \in {"a", "c"} |-> Unused(StringValue("i"))]
       [] s = Empty -> [n \in {} |-> Unused(NoValue)]]

Init ==
  /\ \E declared_in \in {Caller, Global}, invoker_scope \in {Invoker, Empty} :
       values = InitValues(declared_in, invoker_scope)
  /\ pc = "idle"
  /\ args = <<>>
  /\ err = NoErr
  /\ steps = <<>>
  /\ before = values

\* The interpreter reaches a call of mark_used_from in the caller's scope.
Call ==
  /\ pc = "idle"
  /\ \E a \in Calls : args' = a
  /\ pc' = "call"
  /\ UNCHANGED <<values, err, steps, before>>

\* The handler runs, from entry to return.
Run ==
  /\ pc = "call"
  /\ LET r == RunMarkUsedFrom(values, Caller, args)
     IN /\ values' = r.values
        /\ err' = r.err
        /\ steps' = r.steps
  /\ before' = values
  /\ pc' = "done"
  /\ UNCHANGED args

\* An error ends the run of the interpreter; after a success it goes on to
\* the next statement.
Return ==
  /\ pc = "done"
  /\ err = NoErr
  /\ pc' = "idle"
  /\ args' = <<>>
  /\ steps' = <<>>
  /\ before' = values
  /\ UNCHANGED <<values, err>>

Next == Call \/ Run \/ Return

Spec == Init /\ [][Next]_vars

(***************************************************************************)
(* Vocabulary of the properties.  The lexical structure is stated here on  *)
(* its own, from containing, and not through the lookups above.            *)
(***************************************************************************)
\* the scopes strictly enclosing s
RECURSIVE ParentChain(_)
ParentChain(s) ==
  IF containing[s] = NoScope THEN {}
  ELSE {containing[s]} \cup ParentChain(containing[s])

\* the scope whose binding a lexical lookup of name from s finds: the nearest
\* of s and its enclosing scopes that declares name, NoScope when none does
DeclaringScope(vals, s, name) ==
  LET declaring == {d \in {s} \cup ParentChain(s) : name \in DOMAIN vals[d]}
  IN IF declaring = {} THEN NoScope
     ELSE CHOOSE d \in declaring :
            \A e \in declaring : e = d \/ e \in ParentChain(d)

Bindings(vals) == {<<s, n>> \in ScopeIds \X {"n", "invoker", "a", "b", "c"} :
                     n \in DOMAIN vals[s]}

\* the call is over
Done == pc = "done"

\* the binding the first argument names, seen from the caller's scope
FromScopeBinding ==
  IF Len(args) >= 1 /\ args[1].node = "identifier"
  THEN <<DeclaringScope(before, Caller, args[1].name), args[1].name>>
  ELSE <<NoScope, "">>

\* the first argument is an identifier bound to a scope
NamesAScope ==
  /\ FromScopeBinding[1] # NoScope
  /\ before[FromScopeBinding[1]][FromScopeBinding[2]].value.type = "SCOPE"

\* the source scope of the call, when NamesAScope
Source == before[FromScopeBinding[1]][FromScopeBinding[2]].value.scope

AllStrings(list) == \A i \in 1..Len(list) : list[i].type = "STRING"
Names(list) == {list[i].str : i \in {j \in 1..Len(list) : list[j].type = "STRING"}}

IsListLiteral(node) == node.node = "literal" /\ node.value.type = "LIST"

\* the third argument is absent or a list of strings
ExclusionWellFormed ==
  Len(args) = 3 => IsListLiteral(args[3]) /\ AllStrings(args[3].value.list)

\* the third argument is there and is no list, or holds a non-string
ExclusionMalformed ==
  /\ Len(args) = 3
  /\ args[3].node = "literal"
  /\ ~(IsListLiteral(args[3]) /\ AllStrings(args[3].value.list))

\* the exclusion set E of the call
Excluded == IF Len(args) = 3 THEN Names(args[3].value.list) ELSE {}

\* a call with two or three arguments whose first names a scope and whose
\* third, if any, is a list of strings
Reaches2 == Len(args) \in {2, 3} /\ NamesAScope /\ ExclusionWellFormed

WildcardCall == Reaches2 /\ args[2] = LiteralNode(StringValue("*"))
ListCall == Reaches2 /\ IsListLiteral(args[2])

\* the used flag of the binding <<s, n>> is as it was when the call began
SameUsed(b) == values[b[1]][b[2]].used = before[b[1]][b[2]].used

(***************************************************************************)
(* The properties.                                                         *)
(***************************************************************************)
\* C1: after a successful wildcard call with exclusion set E on source S,
\* every binding declared on S whose name is not in E is used, every binding
\* of S whose name is in E has the used flag it had before, and S declares
\* the same names as before; a name of E that S does not bind does nothing:
\* outside S only the binding of the from_scope identifier is touched.
WildcardCompleteness ==
  (Done /\ WildcardCall) =>
    /\ err = NoErr
    /\ DOMAIN values[Source] = DOMAIN before[Source]
    /\ \A n \in DOMAIN before[Source] :
         IF n \in Excluded
         THEN SameUsed(<<Source, n>>)
         ELSE values[Source][n].used
    /\ \A b \in Bindings(before) :
         (b[1] # Source /\ b # FromScopeBinding) => SameUsed(b)

\* C1 witness: "*" on the invoker scope with E = {a, z}: c is used, a is not.
WildcardCompletenessWitness ==
  /\ Done /\ WildcardCall /\ Source = Invoker
  /\ Excluded = {"a", "z"}
  /\ values[Invoker]["c"].used /\ ~before[Invoker]["c"].used
  /\ ~values[Invoker]["a"].used

\* C2: a wildcard call changes the used flag of no binding declared in a
\* scope of the source's parent chain, whatever the source declares.
WildcardLocality ==
  (Done /\ WildcardCall) =>
    \A b \in Bindings(before) : b[1] \in ParentChain(Source) => SameUsed(b)

\* C2 witness: "*" on the scope that declares nothing; its parent's bindings
\* are still unused.
WildcardLocalityWitness ==
  /\ Done /\ WildcardCall /\ Source = Empty /\ err = NoErr
  /\ ~values[Module]["a"].used /\ ~values[Module]["b"].used

\* C3: after a successful list call, every listed name that is bound in the
\* source scope or its parent chain has its nearest binding marked used.
ListLookupReachesOutward ==
  (Done /\ ListCall /\ AllStrings(args[2].value.list)) =>
    \A n \in Names(args[2].value.list) :
      LET d == DeclaringScope(before, Source, n)
      IN d # NoScope => values[d][n].used

\* C3 witness: b is declared only in the parent of the invoker scope and the
\* list call on the invoker scope marks it there.
ListLookupReachesOutwardWitness ==
  /\ Done /\ ListCall /\ Source = Invoker
  /\ args[2].value.list = <<StringValue("b")>>
  /\ ~before[Module]["b"].used /\ values[Module]["b"].used

\* C4: when the list of the second argument holds a non-string, the call
\* fails with the type error and marks no name of the list: the used flags
\* of the source scope and its parent chain are as before.
AllOrNothingList ==
  (Done /\ ListCall /\ ~AllStrings(args[2].value.list)) =>
    /\ err = ErrNotAString
    /\ \A b \in Bindings(before) :
         b[1] \in {Source} \cup ParentChain(Source) => SameUsed(b)

\* C5 as stated: when the third argument is no list or holds a non-string,
\* the call fails and every used flag, the from_scope identifier's too, is
\* as before.
MalformedExclusionChangesNothing ==
  (Done /\ Len(args) = 3 /\ NamesAScope /\ ExclusionMalformed) =>
    /\ HasError(err)
    /\ \A b \in Bindings(before) : SameUsed(b)

\* C5 amended: when the third argument is no list or holds a non-string, the
\* call fails with the error of that argument, the binding of the from_scope
\* identifier is used (the lookup marked it), and every other used flag is
\* as before.
MalformedExclusionMarksOnlyFromScope ==
  (Done /\ Len(args) = 3 /\ NamesAScope /\ ExclusionMalformed) =>
    /\ err \in {ErrBadExclusion, ErrNotAString}
    /\ values[FromScopeBinding[1]][FromScopeBinding[2]].used
    /\ \A b \in Bindings(before) : b # FromScopeBinding => SameUsed(b)

\* C5 witness: "*" with the exclusion list [a, 5] on the invoker scope.
MalformedExclusionWitness ==
  /\ Done /\ NamesAScope /\ Source = Invoker
  /\ Len(args) = 3
  /\ args[2] = LiteralNode(StringValue("*"))
  /\ args[3] = LiteralNode(ListValue(<<StringValue("a"), IntegerValue>>))
  /\ err = ErrNotAString
  /\ ~before[FromScopeBinding[1]]["invoker"].used
  /\ ~values[Invoker]["c"].used

MissingNameIsNoOp ==
  (Done /\ ListCall /\ AllStrings(args[2].value.list)) =>
    /\ err = NoErr
    /\ \A b \in Bindings(before) :
         \/ SameUsed(b)
         \/ b = FromScopeBinding
         \/ /\ b[2] \in Names(args[2].value.list)
            /\ b[1] = DeclaringScope(before, Source, b[2])

\* C7 witness: the list [z, b] on the invoker scope: z is bound nowhere, the
\* call succeeds and b is marked.
MissingNameIsNoOpWitness ==
  /\ Done /\ ListCall /\ Source = Invoker /\ err = NoErr
  /\ args[2].value.list = <<StringValue("z"), StringValue("b")>>
  /\ DeclaringScope(before, Source, "z") = NoScope
  /\ ~before[Module]["b"].used /\ values[Module]["b"].used
  /\ ~values[Invoker]["a"].used /\ ~values[Module]["a"].used

\* C8: a second argument that is a string other than "*", or neither a
\* string nor a list, fails with "Not a valid list of variables to mark
\* used." and changes no used flag of the source scope or its parent chain.
SecondArgumentShape ==
  (Done /\ Reaches2 /\ args[2].node = "literal"
        /\ args[2].value.type # "LIST"
        /\ args[2].value # StringValue("*")) =>
    /\ err = ErrBadWhat
    /\ \A b \in Bindings(before) :
         b[1] \in {Source} \cup ParentChain(Source) => SameUsed(b)

\* C8 witness: the string "all" on the invoker scope, with a and c unused.
SecondArgumentShapeWitness ==
  /\ Done /\ Reaches2 /\ Source = Invoker
  /\ args[2] = LiteralNode(StringValue("all"))
  /\ err = ErrBadWhat
  /\ ~values[Invoker]["a"].used /\ ~values[Invoker]["c"].used

\* C9: no call turns a used flag from true to false, and no call adds,
\* removes or re-values a binding.
UsedIsMonotonic ==
  \A s \in ScopeIds :
    /\ DOMAIN values[s] = DOMAIN before[s]
    /\ \A n \in DOMAIN before[s] :
         /\ values[s][n].value = before[s][n].value
         /\ before[s][n].used => values[s][n].used

\* C9 witness: a is used before a wildcard call that excludes a, and is
\* used after it.
UsedIsMonotonicWitness ==
  /\ Done /\ WildcardCall /\ Source = Invoker /\ err = NoErr
  /\ Excluded = {"a"}
  /\ before[Invoker]["a"].used /\ values[Invoker]["a"].used
  /\ ~before[Invoker]["c"].used /\ values[Invoker]["c"].used

\* the first of the steps (1) argument count, (2) identifier node,
\* (3) lookup, (4) scope type, (5) exclusion list, (6) evaluation of the
\* second argument that fails for the call; 7 when none fails
FailingStep ==
  IF Len(args) \notin {2, 3} THEN 1
  ELSE IF args[1].node # "identifier" THEN 2
  ELSE IF FromScopeBinding[1] = NoScope THEN 3
  ELSE IF ~NamesAScope THEN 4
  ELSE IF ~ExclusionWellFormed THEN 5
  ELSE IF args[2].node = "failing" THEN 6
  ELSE 7

\* the error of failing step k
StepError(k) ==
  CASE k = 1 -> ErrWrongArgCount
    [] k = 2 -> ErrNotIdentifier
    [] k = 3 -> ErrUndefinedIdentifier
    [] k = 4 -> ErrNotAScope
    [] k = 5 -> IF args[3].node = "failing" THEN ErrEvaluation
                ELSE IF args[3].value.type # "LIST" THEN ErrBadExclusion
                ELSE ErrNotAString
    [] k = 6 -> ErrEvaluation

\* steps (1) to (6) in the order of the claim; a call with two arguments has
\* no step (5)
StepOrder ==
  <<"count", "identifier", "lookup", "scope", "exclusion", "what">>
StepsThrough(k) ==
  SelectSeq(SubSeq(StepOrder, 1, k),
            LAMBDA st : st # "exclusion" \/ Len(args) = 3)

\* C10: the call goes through the steps in the order (1)..(7), reports the
\* error of the first step that fails and takes no step after it: a wrong
\* argument count changes nothing, a failing third argument leaves the
\* second unevaluated, and the marking is reached only when steps (1) to
\* (6) all succeeded.
CheckOrdering ==
  Done =>
    LET k == FailingStep
    IN /\ k <= 6 => /\ steps = StepsThrough(k)
                    /\ err = StepError(k)
                    /\ \A b \in Bindings(before) :
                         b # FromScopeBinding => SameUsed(b)
       /\ k = 1 => values = before
       /\ k = 7 => /\ SubSeq(steps, 1, Len(StepsThrough(6))) = StepsThrough(6)
                   /\ Len(steps) <= Len(StepsThrough(6)) + 1
       /\ (\E i \in 1..Len(steps) : steps[i] = "mark") =>
            /\ k = 7
            /\ steps[Len(steps)] = "mark"

\* C10 witness: "*" with a third argument whose evaluation fails: the call
\* stops at step (5) and c is not marked.
CheckOrderingWitness ==
  /\ Done /\ Len(args) = 3 /\ NamesAScope /\ Source = Invoker
  /\ args[2] = LiteralNode(StringValue("*"))
  /\ args[3] = FailingNode
  /\ err = ErrEvaluation
  /\ steps = <<"count", "identifier", "lookup", "scope", "exclusion">>
  /\ ~values[Invoker]["c"].used

====
